---- MODULE Spec2Model ----
(***************************************************************************)
(* A model of the mongoose plugin of this repository: the read helpers     *)
(* (numberOf, list, get), the write helpers (patch), the cache             *)
(* invalidation (clearCache and the post hooks), in the three versions the *)
(* sources hold:                                                           *)
(*   "readached"  src/src/index.js    lines  27-115  (function readached)  *)
(*   "part0"      src/unnamed/part_000 lines 54-251  (function plugin)     *)
(*   "index"      src/src/index.js    lines 171-392  (function plugin)     *)
(*                                                                         *)
(* JavaScript values are tagged records, strings are sequences of one-     *)
(* character strings, so that split, join, startsWith and glob matching    *)
(* are computed and not assumed.                                           *)
(***************************************************************************)
EXTENDS Integers, Sequences, FiniteSets, TLC

VARIABLES
    impl,        \* which version of the plugin is registered
    pluginOpts,  \* the plugin options after _.defaults
    hasCacheFn,  \* whether the query objects carry a cache() function
    reg,         \* the registration: "none" before plugin() ran, "installed", "threw"
    rq,          \* the query a read helper built and executed, or NoQuery
    store,       \* the backend collection of the model: id -> document or NoDoc
    ver,         \* per id, the number of writes applied to it (history)
    cache,       \* the cache store: a set of entries [key, snap, stamp, late]
    writers,     \* the mutating operations in flight, one per writer slot
    getters,     \* the read operations in flight, one per getter slot
    committed,   \* per id, the version the last successfully completed patch wrote (history)
    nOps         \* operations started so far

vars == <<impl, pluginOpts, hasCacheFn, reg, rq, store, ver, cache, writers, getters,
          committed, nOps>>

readVars  == <<rq>>
cacheVars == <<store, ver, cache, writers, getters, committed, nOps>>
cfgVars   == <<impl, pluginOpts, hasCacheFn, reg>>

(***************************************************************************)
(* JavaScript values                                                       *)
(***************************************************************************)
Undef    == [t |-> "undefined"]
Null     == [t |-> "null"]
NaN      == [t |-> "NaN"]
Fn       == [t |-> "function"]
Num(n)   == [t |-> "number", v |-> n]
Str(s)   == [t |-> "string", v |-> s]
Bool(b)  == [t |-> "boolean", v |-> b]
Arr(a)   == [t |-> "array", v |-> a]
Obj(o)   == [t |-> "object", v |-> o]
\* a key an options object does not hold
Absent   == [t |-> "absent"]

\* ToBoolean, as && and || and if apply it
Truthy(x) ==
    CASE x.t = "undefined" -> FALSE
      [] x.t = "absent"    -> FALSE
      [] x.t = "null"      -> FALSE
      [] x.t = "NaN"       -> FALSE
      [] x.t = "number"    -> x.v # 0
      [] x.t = "string"    -> x.v # <<>>
      [] x.t = "boolean"   -> x.v
      [] OTHER             -> TRUE

Range(s) == {s[i] : i \in 1..Len(s)}

(***************************************************************************)
(* Strings                                                                 *)
(***************************************************************************)
RECURSIVE Flatten(_)
Flatten(ss) == IF ss = <<>> THEN <<>> ELSE Head(ss) \o Flatten(Tail(ss))

\* String.prototype.startsWith
StartsWith(s, p) == Len(p) <= Len(s) /\ SubSeq(s, 1, Len(p)) = p

\* the index of the first occurrence of p in s, 0 when there is none
IndexOf(s, p) ==
    LET at == {i \in 1..(Len(s) - Len(p) + 1) : SubSeq(s, i, i + Len(p) - 1) = p}
    IN  IF at = {} THEN 0 ELSE CHOOSE i \in at : \A j \in at : i <= j

\* String.prototype.replace(p, ''): the first occurrence only
ReplaceFirst(s, p) ==
    LET i == IndexOf(s, p)
    IN  IF i = 0 THEN s ELSE SubSeq(s, 1, i - 1) \o SubSeq(s, i + Len(p), Len(s))

\* String.prototype.includes('.')
IncludesDot(s) == \E i \in 1..Len(s) : s[i] = "."

\* String.prototype.split(sep) for a one-character separator
RECURSIVE Split(_, _)
Split(s, sep) ==
    LET at == {i \in 1..Len(s) : s[i] = sep}
    IN  IF at = {} THEN <<s>>
        ELSE LET i == CHOOSE k \in at : \A j \in at : k <= j
             IN  <<SubSeq(s, 1, i - 1)>> \o Split(SubSeq(s, i + 1, Len(s)), sep)

\* the string an array element becomes in Array.prototype.join
JoinText(x) == IF x.t = "string" THEN x.v ELSE <<>>

\* Array.prototype.join(sep) of an array of values
RECURSIVE Join(_, _)
Join(a, sep) ==
    IF a = <<>> THEN <<>>
    ELSE IF Len(a) = 1 THEN JoinText(a[1])
    ELSE JoinText(a[1]) \o sep \o Join(Tail(a), sep)

\* the template string `${x}` of an id or of a model name
TemplateText(x) ==
    CASE x.t = "string"    -> x.v
      [] x.t = "undefined" -> <<"u", "n", "d", "e", "f", "i", "n", "e", "d">>
      [] x.t = "null"      -> <<"n", "u", "l", "l">>
      [] x.t = "boolean"   -> IF x.v THEN <<"t", "r", "u", "e">>
                              ELSE <<"f", "a", "l", "s", "e">>
      [] OTHER             -> <<"?">>

(***************************************************************************)
(* lodash                                                                  *)
(***************************************************************************)
\* _.castArray(value) called with one argument
castArray(x) == IF x.t = "array" THEN x.v ELSE <<x>>

\* _.without(array, ...values)
without(a, values) == SelectSeq(a, LAMBDA e : e \notin Range(values))

\* _.uniq(array): the first occurrence of each value, in order
RECURSIVE uniq(_)
uniq(a) ==
    IF a = <<>> THEN <<>>
    ELSE LET r == uniq(SubSeq(a, 1, Len(a) - 1))
         IN  IF a[Len(a)] \in Range(r) THEN r ELSE Append(r, a[Len(a)])

\* _.toSafeInteger(value) on the values the model passes: a number within the
\* safe range is itself; undefined, NaN and a non-numeric string are 0
toSafeInteger(x) == IF x.t = "number" THEN x.v ELSE 0

\* _.toNumber of a bound of _.clamp, NaN replaced by 0 as clamp does
ClampBound(x) == IF x.t = "number" THEN x.v ELSE 0

\* _.clamp(number, upper) called with two arguments: lower is undefined, and
\* an undefined upper leaves the number as it is (baseClamp)
clamp(n, upper) ==
    IF upper.t \in {"undefined", "absent"} THEN n
    ELSE IF n <= ClampBound(upper) THEN n ELSE ClampBound(upper)

(***************************************************************************)
(* The host's schema: the paths the model's documents have.  n, s, p are   *)
(* plain fields, o is a nested object with the field o.k, a is a reference *)
(* to a document of another model (options.ref); any other path is unknown.*)
(***************************************************************************)
RealPaths   == {<<"n">>, <<"s">>, <<"p">>, <<"a">>, <<"o", ".", "k">>}
NestedPaths == {<<"o">>}
RefPaths    == {<<"a">>}

\* Schema.prototype.pathType(path)
SchemaPathType(path) ==
    IF path \in RealPaths THEN "real"
    ELSE IF path \in NestedPaths THEN "nested"
    ELSE "adhocOrUndefined"

\* _.has(schema, 'caster.options.ref') || _.has(schema, 'options.ref')
SchemaHasRef(path) == path \in RefPaths

\* dot-path-walk: the prefixes of a dotted path, shortest first; nothing for
\* an empty or non-string input
WalkPrefixes(x) ==
    IF x.t # "string" \/ x.v = <<>> THEN <<>>
    ELSE LET parts == Split(x.v, ".")
         IN  [k \in 1..Len(parts) |->
                Join([i \in 1..k |-> Str(parts[i])], <<".">>)]

(***************************************************************************)
(* Cache prefixes and options                                              *)
(***************************************************************************)
CountText == <<":", "c", "o", "u", "n", "t", ":">>
ListText  == <<":", "l", "i", "s", "t", ":">>
GetText   == <<":", "g", "e", "t", ":">>

COUNT_CACHE_PREFIX(opts) == TemplateText(opts.modelName) \o CountText
LIST_CACHE_PREFIX(opts)  == TemplateText(opts.modelName) \o ListText
GET_CACHE_PREFIX(opts)   == TemplateText(opts.modelName) \o GetText

NoQuery == [fn |-> "none"]
NoCache == [t |-> "nocache"]

OptKeys == {"commonFields", "secretFields", "limit", "cache", "lean", "sort"}
EmptyOpts == [k \in OptKeys |-> Absent]

\* _.isFunction(opts) && ([opts, done] = [{}, opts])
ShiftOpts(optsArg) == IF optsArg = Fn \/ optsArg = Undef THEN EmptyOpts ELSE optsArg

\* the value of a key of the plugin options, undefined when they hold none
PolicyValue(k) == pluginOpts[k]

\* Object.assign({}, pluginOpts, opts)
MergeOpts(opts) ==
    [k \in OptKeys |-> IF opts[k] = Absent THEN PolicyValue(k) ELSE opts[k]]

\* the limit list applies: _.clamp(_.toSafeInteger(opts.limit), pluginOpts.limit)
AppliedLimit(limit) == clamp(toSafeInteger(limit), PolicyValue("limit"))

\* the key-value pairs of a sort object with one key set
SetKey(pairs, k, v) ==
    IF \E i \in 1..Len(pairs) : pairs[i].k = k
    THEN [i \in 1..Len(pairs) |-> IF pairs[i].k = k THEN [k |-> k, v |-> v] ELSE pairs[i]]
    ELSE Append(pairs, [k |-> k, v |-> v])

TextScore == [t |-> "meta", v |-> "textScore"]
ScoreKey  == <<"s", "c", "o", "r", "e">>

\* searchText && (opts.sort = _.assign({}, opts.sort, {score: {$meta: 'textScore'}}))
TextSort(searchText, sort) ==
    IF ~searchText THEN sort
    ELSE Obj(SetKey(IF sort.t = "object" THEN sort.v ELSE <<>>, ScoreKey, TextScore))

\* const ttl = _.isFunction(find.cache) ? opts.cache : 0
\* ttl && opts.lean && find.cache(ttl, prefix)
AttachCache(opts, prefix) ==
    LET ttl == IF hasCacheFn THEN opts.cache ELSE Num(0)
    IN  IF Truthy(ttl) /\ Truthy(opts.lean) THEN [ttl |-> ttl, prefix |-> prefix]
        ELSE NoCache

\* the spread ...x of an array or of a string (its characters), the values
\* the policies of the model hold in commonFields and secretFields
Spread(x) ==
    IF x.t = "array" THEN x.v
    ELSE [i \in 1..Len(x.v) |-> Str(<<x.v[i]>>)]

\* extras = [...opts.commonFields, ..._.without(_.castArray(extras), ...opts.secretFields)]
RequestedFields(opts, extrasArg) ==
    Spread(opts.commonFields) \o without(castArray(extrasArg), Spread(opts.secretFields))

(***************************************************************************)
(* part_000: the walk of the requested fields (lines 96-112, 143-159)      *)
(***************************************************************************)
\* extras.filter((e) => e.startsWith(path)).map((e) => e.replace(`${path}.`, '')).join(' ')
PopulateSelect0(path, extras) ==
    LET hit == SelectSeq(extras, LAMBDA e : StartsWith(e.v, path))
    IN  Join([i \in 1..Len(hit) |-> Str(ReplaceFirst(hit[i].v, path \o <<".">>))], <<" ">>)

RECURSIVE WalkPaths0(_, _, _)
WalkPaths0(paths, extras, acc) ==
    IF paths = <<>> THEN acc
    ELSE LET path == Head(paths)
             pushed == [acc EXCEPT !.valid = Append(@, Str(path))]
         IN  IF SchemaPathType(path) = "adhocOrUndefined" THEN acc
             ELSE IF SchemaHasRef(path)
                  THEN IF \E i \in 1..Len(extras) : extras[i].t # "string"
                       THEN [pushed EXCEPT !.raised = TRUE]
                       ELSE [pushed EXCEPT !.populate =
                               Append(@, [path |-> path,
                                          select |-> PopulateSelect0(path, extras)])]
                  ELSE WalkPaths0(Tail(paths), extras, pushed)

RECURSIVE WalkExtras0(_, _, _)
WalkExtras0(rest, extras, acc) ==
    IF rest = <<>> \/ acc.raised THEN acc
    ELSE IF ~Truthy(Head(rest)) THEN WalkExtras0(Tail(rest), extras, acc)
    ELSE WalkExtras0(Tail(rest), extras,
                     WalkPaths0(WalkPrefixes(Head(rest)), extras, acc))

Classify0(extras) ==
    LET acc == WalkExtras0(extras, extras, [valid |-> <<>>, populate |-> <<>>, raised |-> FALSE])
    IN  [select |-> Join(acc.valid, <<" ">>), populate |-> acc.populate, raised |-> acc.raised]

(***************************************************************************)
(* index.js plugin: select and the populate tree (lines 213-243, 272-302)  *)
(* A tree of populates[firstNode] is a chain, node i the populate of node  *)
(* i-1; a node is [path, select], select the keys in insertion order.      *)
(***************************************************************************)
AddKey(keys, k) == IF k \in Range(keys) THEN keys ELSE Append(keys, k)

Larger(a, b) == IF a >= b THEN a ELSE b

\* the for loop over nodes, on the chain the first node's entry holds
ChainWith(chain, nodes) ==
    [i \in 1..Larger(Len(chain), Len(nodes) - 1) |->
        IF i <= Len(nodes) - 1
        THEN [path   |-> nodes[i],
              select |-> AddKey(IF i <= Len(chain) THEN chain[i].select ELSE <<>>,
                                nodes[i + 1])]
        ELSE chain[i]]

\* populates[firstNode] = populates[firstNode] || {}, then the loop
PopulatesWith(pops, nodes) ==
    IF \E i \in 1..Len(pops) : pops[i].first = nodes[1]
    THEN [i \in 1..Len(pops) |->
            IF pops[i].first = nodes[1]
            THEN [first |-> nodes[1], chain |-> ChainWith(pops[i].chain, nodes)]
            ELSE pops[i]]
    ELSE Append(pops, [first |-> nodes[1], chain |-> ChainWith(<<>>, nodes)])

RECURSIVE WalkExtras1(_, _)
WalkExtras1(rest, acc) ==
    IF rest = <<>> THEN acc
    ELSE LET extra == Head(rest)
         IN  IF extra.t # "string" \/ ~IncludesDot(extra.v)
             THEN WalkExtras1(Tail(rest), [acc EXCEPT !.select = Append(@, extra)])
             ELSE LET nodes == Split(extra.v, ".")
                  IN  WalkExtras1(Tail(rest),
                        [select   |-> Append(acc.select, Str(nodes[1])),
                         populate |-> PopulatesWith(acc.populate, nodes)])

\* _.values(populates) and _.uniq(select).join(' ')
Classify1(extras) ==
    LET acc == WalkExtras1(extras, [select |-> <<>>, populate |-> <<>>])
    IN  [select   |-> Join(uniq(acc.select), <<" ">>),
         populate |-> [i \in 1..Len(acc.populate) |-> acc.populate[i].chain],
         raised   |-> FALSE]

Classify(extras) == IF impl = "part0" THEN Classify0(extras) ELSE Classify1(extras)

(***************************************************************************)
(* readached: populate(path) for the first reference of each extra, and    *)
(* select of the requested fields as they are (lines 50-68)                *)
(***************************************************************************)
FirstRef(paths) ==
    LET at == {i \in 1..Len(paths) : SchemaHasRef(paths[i])}
    IN  IF at = {} THEN <<>> ELSE <<paths[CHOOSE i \in at : \A j \in at : i <= j]>>

ClassifyReadached(extras) ==
    [select   |-> Join(extras, <<" ">>),
     populate |-> Flatten([i \in 1..Len(extras) |-> FirstRef(WalkPrefixes(extras[i]))]),
     raised   |-> FALSE]

\* opts.sort && _.mapValues(opts.sort, (val) => val > 0 ? 1 : -1)
NormalSort(sort) ==
    IF sort.t # "object" THEN sort
    ELSE Obj([i \in 1..Len(sort.v) |->
                [k |-> sort.v[i].k,
                 v |-> IF sort.v[i].v.t = "number" /\ sort.v[i].v.v > 0
                       THEN Num(1) ELSE Num(-1)]])

\* Query.prototype.select(string): the fields the string names
SelectedFields(select) == {f \in Range(Split(select, " ")) : f # <<>>}

(***************************************************************************)
(* Registration: pluginOpts = _.defaults({}, pluginOpts, DEFAULT_PLUGIN_OPTS)*)
(***************************************************************************)
DefaultLimit == 100
VersionKey   == <<"_", "_", "v">>

PolicyKeys == {"modelName", "commonFields", "secretFields", "readOnlyFields",
               "limit", "cache", "lean", "sort", "clearCache"}

\* the defaults of each version: readached sets limit and no lean, plugin sets
\* lean and readOnlyFields and no limit
DEFAULT_PLUGIN_OPTS(i) ==
    IF i = "readached"
    THEN [commonFields |-> Arr(<<>>), secretFields |-> Arr(<<Str(VersionKey)>>),
          limit |-> Num(DefaultLimit)]
    ELSE [commonFields |-> Arr(<<>>), secretFields |-> Arr(<<Str(VersionKey)>>),
          readOnlyFields |-> Arr(<<>>), lean |-> Bool(TRUE)]

\* _.defaults({}, raw, defaults): a default fills an undefined key only
defaults(raw, d) ==
    [k \in PolicyKeys |->
        IF k \in DOMAIN raw /\ raw[k] # Undef THEN raw[k]
        ELSE IF k \in DOMAIN d THEN d[k] ELSE Undef]

Impls == {"readached", "part0", "index"}

(***************************************************************************)
(* The read helpers                                                        *)
(***************************************************************************)
\* schema.statics.numberOf(query, opts, done)
numberOf(optsArg) ==
    LET opts == MergeOpts(ShiftOpts(optsArg))
    IN  IF ~hasCacheFn THEN [op |-> "numberOf", raised |-> TRUE]
        ELSE [op |-> "numberOf", raised |-> FALSE, lean |-> Truthy(opts.lean),
              cache |-> [ttl |-> opts.cache, prefix |-> COUNT_CACHE_PREFIX(pluginOpts)]]

\* schema.statics.list(query, extras, opts, done) of the plugin
list(searchText, extrasArg, optsArg) ==
    LET opts   == MergeOpts(ShiftOpts(optsArg))
        limit  == AppliedLimit(opts.limit)
        sort   == TextSort(searchText, opts.sort)
        extras == RequestedFields(opts, extrasArg)
        c      == Classify(extras)
    IN  IF c.raised THEN [op |-> "list", raised |-> TRUE]
        ELSE [op |-> "list", raised |-> FALSE, score |-> searchText,
              select |-> c.select, populate |-> c.populate,
              limit |-> limit, sort |-> sort, lean |-> Truthy(opts.lean),
              cache |-> AttachCache(opts, LIST_CACHE_PREFIX(pluginOpts))]

\* schema.statics.get(id, query, extras, opts, done) of the plugin
get(id, extrasArg, optsArg) ==
    LET opts   == MergeOpts(ShiftOpts(optsArg))
        extras == RequestedFields(opts, extrasArg)
        c      == Classify(extras)
    IN  IF c.raised THEN [op |-> "get", raised |-> TRUE]
        ELSE [op |-> "get", raised |-> FALSE, id |-> id,
              select |-> c.select, populate |-> c.populate,
              lean |-> Truthy(opts.lean),
              cache |-> AttachCache(opts, GET_CACHE_PREFIX(pluginOpts) \o TemplateText(id) \o <<":">>)]

\* opts.cache || pluginOpts.cache
EitherCache(opts) == IF Truthy(opts.cache) THEN opts.cache ELSE PolicyValue("cache")

\* schema.statics.list(query, extras, opts, done) of readached: the policy's
\* fields are not overridden by opts, the limit defaults to the policy's
\* (_.defaults({}, opts, {limit}) of a function or of undefined holds no key)
readachedList(extrasArg, optsArg) ==
    LET given  == IF optsArg \in {Undef, Fn} THEN EmptyOpts ELSE optsArg
        extras == Spread(PolicyValue("commonFields"))
                    \o without(castArray(extrasArg), Spread(PolicyValue("secretFields")))
        lim    == IF given.limit \in {Absent, Undef} THEN PolicyValue("limit") ELSE given.limit
        c      == ClassifyReadached(extras)
        ttl    == EitherCache(given)
    IN  [op |-> "list", raised |-> FALSE, score |-> FALSE,
         select |-> c.select, populate |-> c.populate,
         limit |-> AppliedLimit(lim),
         sort |-> IF Truthy(given.sort) THEN NormalSort(given.sort) ELSE given.sort,
         lean |-> Truthy(given.lean),
         cache |-> IF hasCacheFn /\ Truthy(ttl)
                   THEN [ttl |-> ttl, prefix |-> LIST_CACHE_PREFIX(pluginOpts)]
                   ELSE NoCache]

(***************************************************************************)
(* The backend, the cache store and the operations in flight               *)
(***************************************************************************)
\* the operations a behaviour starts, reads and writes together
MaxOps == 3

\* the host issues one mutating operation at a time and one read at a time;
\* a read and a mutation run concurrently, step by step
Writers == {"w"}
Getters == {"g"}

\* the ids of the documents, as this._id.toString() gives them
Ids == {<<"a">>, <<"a", "b">>}
\* the document of the other model, B, refers to this one
RefId == <<"a">>

\* the fields of a document: n and p of the schema
DocFields == {"n", "p"}
Vals == {0, 1}

NoDoc == Null
Doc0  == [f \in DocFields |-> 0]

BackendError == [t |-> "error", v |-> "backend"]
TypeError    == [t |-> "error", v |-> "TypeError"]
ClearError   == [t |-> "error", v |-> "clearCache"]

\* the key of an object a one-segment path names
KeysOf(paths) == {paths[i].v[1] : i \in {j \in 1..Len(paths) : Len(paths[j].v) = 1}}

\* _.omit(object, paths)
omit(obj, paths) == [k \in DOMAIN obj \ KeysOf(paths) |-> obj[k]]

\* Object.assign(target, source)
assign(target, source) ==
    [k \in DOMAIN target \cup DOMAIN source |->
        IF k \in DOMAIN source THEN source[k] ELSE target[k]]

\* Object.assign(this, _.omit(patch, pluginOpts.readOnlyFields))
Patched(doc, patch) == assign(doc, omit(patch, pluginOpts.readOnlyFields.v))

\* the paths of a document a save writes: those whose value was changed
Modified(doc, loaded) == {f \in DOMAIN doc : f \notin DOMAIN loaded \/ doc[f] # loaded[f]}

(***************************************************************************)
(* Cache keys, patterns and their matching                                 *)
(***************************************************************************)
Star      == <<"*">>
QueryHash == <<"#">>

ModelB == Str(<<"B">>)
OptsB  == [pluginOpts EXCEPT !.modelName = ModelB]

\* clearCache without the pattern of the document's own get results
ClearPatterns_NoGet(opts, id) ==
    << COUNT_CACHE_PREFIX(opts) \o Star, LIST_CACHE_PREFIX(opts) \o Star >>

\* clearCache without the pattern of the list results
ClearPatterns_NoList(opts, id) ==
    << COUNT_CACHE_PREFIX(opts) \o Star,
       GET_CACHE_PREFIX(opts) \o id \o <<":">> \o Star >>

\* the patterns schema.methods.clearCache issues for a document, in order
ClearPatterns(opts, id) ==
    << COUNT_CACHE_PREFIX(opts) \o Star,
       LIST_CACHE_PREFIX(opts) \o Star,
       GET_CACHE_PREFIX(opts) \o id \o <<":">> \o Star >>

\* glob matching of a key by a pattern, * for any run of characters
RECURSIVE Glob(_, _)
Glob(p, k) ==
    IF p = <<>> THEN k = <<>>
    ELSE IF Head(p) = "*"
         THEN \E i \in 0..Len(k) : Glob(Tail(p), SubSeq(k, i + 1, Len(k)))
         ELSE k # <<>> /\ Head(k) = Head(p) /\ Glob(Tail(p), Tail(k))

\* the cache after pluginOpts.clearCache(pattern)
Cleared(c, pattern) == {e \in c : ~Glob(pattern, e.key)}

RECURSIVE ClearedAll(_, _)
ClearedAll(c, patterns) ==
    IF patterns = <<>> THEN c ELSE ClearedAll(Cleared(c, Head(patterns)), Tail(patterns))

\* schema.methods.clearCache of the document id, its failAt-th call throwing
\* (0: none throws): the patterns it called with, the cache left, whether it threw
clearCache(c, id, failAt) ==
    IF pluginOpts.clearCache # Fn
    THEN [calls |-> <<>>, cache |-> c, raised |-> FALSE]
    ELSE LET ps == ClearPatterns(pluginOpts, id)
         IN  IF failAt = 0
             THEN [calls |-> ps, cache |-> ClearedAll(c, ps), raised |-> FALSE]
             ELSE [calls |-> SubSeq(ps, 1, failAt),
                   cache |-> ClearedAll(c, SubSeq(ps, 1, failAt - 1)),
                   raised |-> TRUE]

\* what a read of the backend returns now, and the versions it rests on
CountNow == Cardinality({i \in Ids : store[i] # NoDoc})

\* the documents a read of the given kind covers
Covered(kind, id) ==
    CASE kind = "get"   -> {id}
      [] kind = "list"  -> Ids
      [] kind = "count" -> {}
      [] kind = "listB" -> {RefId}

FreshSnap(kind, id) ==
    [docs |-> [i \in Covered(kind, id) |-> store[i]],
     n    |-> IF kind = "count" THEN CountNow ELSE 0]

FreshStamp(kind, id) ==
    [vers |-> [i \in Covered(kind, id) |-> ver[i]],
     n    |-> IF kind = "count" THEN CountNow ELSE 0]

Stale(e) == e.stamp # FreshStamp(e.kind, e.id)

(***************************************************************************)
(* The mutating operations.  A writer slot runs one operation at a time:   *)
(*   patch   statics.patch(id, patch, done): findById, doc.patch, save     *)
(*   create  new Model(doc).save(done)                                     *)
(*   remove  doc.remove(done) of a loaded document                         *)
(*   fau     Model.findOneAndUpdate({_id: id}, update, {upsert}, done)     *)
(*   far     Model.findOneAndRemove({_id: id}, done)                       *)
(* pc: idle, find, save, remove, fau, far (the backend call is pending),   *)
(* post (the post hook is pending), deliver (the callback is pending),     *)
(* done, uncaught (an exception left a callback).                          *)
(***************************************************************************)
EmptyObj == <<>>
NoRes    == [t |-> "none"]

IdleWriter ==
    [op |-> "none", id |-> <<>>, pc |-> "idle", patch |-> EmptyObj, doc |-> Null,
     loaded |-> Null, err |-> Null, res |-> NoRes, inv |-> 0, calls |-> <<>>,
     applied |-> FALSE, raised |-> FALSE, wver |-> 0, upsert |-> FALSE]

Patches == {[n |-> 1, p |-> 1]}

WriterFree(w) == writers[w].pc \in {"idle", "done", "uncaught"} /\ nOps < MaxOps

Begin(w, op, id, pc, patch, doc, upsert) ==
    /\ writers' = [writers EXCEPT ![w] =
           [IdleWriter EXCEPT !.op = op, !.id = id, !.pc = pc, !.patch = patch,
                              !.doc = doc, !.loaded = doc, !.upsert = upsert]]
    /\ nOps' = nOps + 1
    /\ UNCHANGED <<store, ver, cache, getters, committed>>
    /\ UNCHANGED <<cfgVars, readVars>>

\* schema.statics.patch: this.findById(id, ...) is issued
StartPatch(w, id, patch) ==
    /\ WriterFree(w)
    /\ Begin(w, "patch", id, "find", patch, Null, FALSE)

\* new Model(doc).save(done)
StartCreate(w, id) ==
    /\ WriterFree(w)
    /\ Begin(w, "create", id, "save", EmptyObj, Doc0, FALSE)

\* doc.remove(done) of a document the host holds
StartRemove(w, id) ==
    /\ WriterFree(w)
    /\ store[id] # NoDoc
    /\ Begin(w, "remove", id, "remove", EmptyObj, store[id], FALSE)

\* Model.findOneAndUpdate({_id: id}, update, {upsert: upsert}, done)
StartFindOneAndUpdate(w, id, update, upsert) ==
    /\ WriterFree(w)
    /\ Begin(w, "fau", id, "fau", update, Null, upsert)

\* Model.findOneAndRemove({_id: id}, done)
StartFindOneAndRemove(w, id) ==
    /\ WriterFree(w)
    /\ Begin(w, "far", id, "far", EmptyObj, Null, FALSE)

\* schema.methods.patch: the document the save is called on
patch(doc, p) == Patched(doc, p)

\* the callback of findById in schema.statics.patch
PatchFound(w, lookupFails) ==
    LET me == writers[w]
        found == store[me.id]
    IN  /\ me.pc = "find"
        /\ writers' = [writers EXCEPT ![w] =
              IF lookupFails
              THEN [me EXCEPT !.pc = "done", !.err = BackendError,
                       !.res = [err |-> BackendError,
                                doc |-> IF impl = "part0" THEN Undef ELSE Null]]
              ELSE IF found = NoDoc
              THEN IF impl = "part0"
                   THEN [me EXCEPT !.pc = "uncaught", !.err = TypeError]
                   ELSE [me EXCEPT !.pc = "done", !.res = [err |-> Null, doc |-> Null]]
              ELSE [me EXCEPT !.pc = "save", !.loaded = found,
                              !.doc = patch(found, me.patch)]]
        /\ UNCHANGED <<store, ver, cache, getters, committed, nOps>>
        /\ UNCHANGED <<cfgVars, readVars>>

\* whether the backend can apply the pending call of a writer
CanApply(me) ==
    CASE me.pc = "save" /\ me.op = "patch"  -> store[me.id] # NoDoc
      [] me.pc = "save" /\ me.op = "create" -> store[me.id] = NoDoc
      [] me.pc = "remove"                   -> store[me.id] # NoDoc
      [] me.pc \in {"fau", "far"}           -> TRUE
      [] OTHER                              -> FALSE

\* the document of id in the backend after the call is applied
Applied(me) ==
    CASE me.op = "patch"  ->
            [f \in DocFields |-> IF f \in Modified(me.doc, me.loaded)
                                 THEN me.doc[f] ELSE store[me.id][f]]
      [] me.op = "create" -> me.doc
      [] me.op = "remove" -> NoDoc
      [] me.op = "fau"    -> IF store[me.id] # NoDoc THEN assign(store[me.id], me.patch)
                             ELSE IF me.upsert THEN assign(Doc0, me.patch)
                             ELSE NoDoc
      [] me.op = "far"    -> NoDoc

\* the backend applies the pending call; the post hook is next.  The hook of
\* findOneAndUpdate and findOneAndRemove gets the document as it was before
\* the call, null when none matched (an upsert that inserts included)
BackendApply(w) ==
    LET me == writers[w]
        hit == store[me.id] # NoDoc \/ me.op = "create" \/ (me.op = "fau" /\ me.upsert)
    IN  /\ me.pc \in {"save", "remove", "fau", "far"}
        /\ CanApply(me)
        /\ store' = [store EXCEPT ![me.id] = Applied(me)]
        /\ ver' = [ver EXCEPT ![me.id] = IF hit THEN @ + 1 ELSE @]
        /\ writers' = [writers EXCEPT ![w] =
              [me EXCEPT !.pc = "post", !.applied = hit,
                         !.wver = ver'[me.id],
                         !.doc = IF me.op \in {"fau", "far"} THEN store[me.id] ELSE me.doc]]
        /\ UNCHANGED <<cache, getters, committed, nOps>>
        /\ UNCHANGED <<cfgVars, readVars>>

\* the backend fails the pending call: no post hook runs, the callback gets
\* the error ((err, doc) => done(err, doc) in schema.methods.patch)
BackendFail(w) ==
    LET me == writers[w]
    IN  /\ me.pc \in {"save", "remove", "fau", "far"}
        /\ writers' = [writers EXCEPT ![w] =
              [me EXCEPT !.pc = "done", !.err = BackendError,
                         !.res = [err |-> BackendError, doc |-> Undef]]]
        /\ UNCHANGED <<store, ver, cache, getters, committed, nOps>>
        /\ UNCHANGED <<cfgVars, readVars>>

\* whether the post hook calls doc.clearCache(): part_000 calls it on any doc,
\* index.js only on a doc that is not null
HookInvokes(doc) == IF impl = "part0" THEN TRUE ELSE doc # Null

\* schema.post('save' | 'remove' | 'findOneAndUpdate' | 'findOneAndRemove'):
\* an exception of the hook either reaches the callback as its error or leaves
\* the hook uncaught, as the hook runner of the mongoose in use decides
PostHook(w, failAt, caught) ==
    LET me == writers[w]
        r  == clearCache(cache, me.id, failAt)
        thrown == IF me.doc = Null THEN TypeError ELSE ClearError
    IN  /\ me.pc = "post"
        /\ IF ~HookInvokes(me.doc)
           THEN /\ failAt = 0 /\ caught
                /\ writers' = [writers EXCEPT ![w] = [me EXCEPT !.pc = "deliver"]]
                /\ cache' = cache
           ELSE IF me.doc = Null
           THEN /\ failAt = 0
                /\ writers' = [writers EXCEPT ![w] =
                      [me EXCEPT !.pc = IF caught THEN "deliver" ELSE "uncaught",
                                 !.err = thrown, !.raised = TRUE]]
                /\ cache' = cache
           ELSE /\ failAt > 0 => pluginOpts.clearCache = Fn
                /\ failAt <= Len(ClearPatterns(pluginOpts, me.id))
                /\ ~r.raised => caught
                /\ cache' = r.cache
                /\ writers' = [writers EXCEPT ![w] =
                      [me EXCEPT !.inv = @ + 1, !.calls = r.calls,
                                 !.raised = r.raised,
                                 !.err = IF r.raised THEN thrown ELSE @,
                                 !.pc = IF r.raised /\ ~caught THEN "uncaught"
                                        ELSE "deliver"]]
        /\ UNCHANGED <<store, ver, getters, committed, nOps>>
        /\ UNCHANGED <<cfgVars, readVars>>

\* the callback of the operation is called
Deliver(w) ==
    LET me == writers[w]
    IN  /\ me.pc = "deliver"
        /\ writers' = [writers EXCEPT ![w] =
              [me EXCEPT !.pc = "done",
                         !.res = IF me.err # Null THEN [err |-> me.err, doc |-> Undef]
                                 ELSE [err |-> Null, doc |-> me.doc]]]
        /\ committed' = IF me.op = "patch" /\ me.err = Null
                        THEN [committed EXCEPT ![me.id] = me.wver]
                        ELSE committed
        /\ UNCHANGED <<store, ver, cache, getters, nOps>>
        /\ UNCHANGED <<cfgVars, readVars>>

(***************************************************************************)
(* The reads in flight.  exec of a query with a cache descriptor looks the *)
(* key up, on a miss reads the backend, then stores what it read and calls *)
(* back; each is a step of its own.  Kinds: get, list, count of the model, *)
(* and listB, a list of the other model B that populates the document      *)
(* RefId of this model.                                                    *)
(***************************************************************************)
Kinds == {"get", "list", "count", "listB"}

NoSnap  == [docs |-> <<>>, n |-> 0]
NoStamp == [vers |-> <<>>, n |-> 0]

IdleGetter ==
    [kind |-> "none", id |-> <<>>, pc |-> "idle", key |-> <<>>,
     val |-> NoSnap, stamp |-> NoStamp, floor |-> 0, hit |-> FALSE, late |-> FALSE]

\* the query the read helper of a kind builds
QueryOf(kind, id, opts) ==
    CASE kind = "get"   -> get(Str(id), Undef, opts)
      [] kind = "count" -> numberOf(opts)
      [] kind = "listB" -> list(FALSE, Str(<<"a", ".", "n">>), opts)
      [] OTHER          -> list(FALSE, Undef, opts)

\* the key the cache files the query under: its prefix, then the query's hash
KeyOf(kind, q) ==
    IF q.raised \/ q.cache = NoCache \/ ~Truthy(q.cache.ttl) THEN <<>>
    ELSE (IF kind = "listB" THEN LIST_CACHE_PREFIX(OptsB) ELSE q.cache.prefix) \o QueryHash

\* a read helper is called: a cached result is called back at once
StartRead(g, kind, id, opts) ==
    LET me  == getters[g]
        key == KeyOf(kind, QueryOf(kind, id, opts))
        hits == {e \in cache : e.key = key}
    IN  /\ me.pc \in {"idle", "returned"}
        /\ nOps < MaxOps
        /\ kind # "get" => id = RefId
        /\ kind = "listB" => QueryOf(kind, id, opts).populate # <<>>
        /\ nOps' = nOps + 1
        /\ getters' = [getters EXCEPT ![g] =
              IF key # <<>> /\ hits # {}
              THEN LET e == CHOOSE x \in hits : TRUE
                   IN  [IdleGetter EXCEPT !.kind = kind, !.id = id, !.pc = "returned",
                            !.key = key, !.val = e.snap, !.stamp = e.stamp,
                            !.floor = committed[id], !.hit = TRUE, !.late = e.late]
              ELSE [IdleGetter EXCEPT !.kind = kind, !.id = id, !.pc = "fetch",
                            !.key = key, !.floor = committed[id]]]
        /\ UNCHANGED <<store, ver, cache, writers, committed>>
        /\ UNCHANGED <<cfgVars, readVars>>

\* the backend answers the query
BackendRead(g) ==
    LET me == getters[g]
    IN  /\ me.pc = "fetch"
        /\ getters' = [getters EXCEPT ![g] =
              [me EXCEPT !.pc = "fetched", !.val = FreshSnap(me.kind, me.id),
                         !.stamp = FreshStamp(me.kind, me.id)]]
        /\ UNCHANGED <<store, ver, cache, writers, committed, nOps>>
        /\ UNCHANGED <<cfgVars, readVars>>

\* the result is stored under the key, when there is one, and called back
StoreAndReturn(g) ==
    LET me == getters[g]
    IN  /\ me.pc = "fetched"
        /\ getters' = [getters EXCEPT ![g] = [me EXCEPT !.pc = "returned"]]
        /\ cache' = IF me.key = <<>> THEN cache
                    ELSE {e \in cache : e.key # me.key} \cup
                         {[key |-> me.key, kind |-> me.kind, id |-> me.id,
                           snap |-> me.val, stamp |-> me.stamp,
                           late |-> me.stamp # FreshStamp(me.kind, me.id)]}
        /\ UNCHANGED <<store, ver, writers, committed, nOps>>
        /\ UNCHANGED <<cfgVars, readVars>>

(***************************************************************************)
(* The read helpers called on their own: the query each builds             *)
(***************************************************************************)
\* the arguments a call was made with, kept beside the query it built
Called(fn, id, searchText, extrasArg, optsArg, q) ==
    [fn |-> fn, id |-> id, searchText |-> searchText, extras |-> extrasArg,
     opts |-> ShiftOpts(optsArg), q |-> q]

CallNumberOf(optsArg) ==
    /\ reg = "installed"
    /\ rq = NoQuery
    /\ impl # "readached"
    /\ rq' = Called("numberOf", Undef, FALSE, Undef, optsArg, numberOf(optsArg))
    /\ UNCHANGED <<cfgVars, cacheVars>>

CallList(searchText, extrasArg, optsArg) ==
    /\ reg = "installed"
    /\ rq = NoQuery
    /\ impl = "readached" => ~searchText
    /\ rq' = Called("list", Undef, searchText, extrasArg, optsArg,
                    IF impl = "readached" THEN readachedList(extrasArg, optsArg)
                    ELSE list(searchText, extrasArg, optsArg))
    /\ UNCHANGED <<cfgVars, cacheVars>>

CallGet(id, extrasArg, optsArg) ==
    /\ reg = "installed"
    /\ rq = NoQuery
    /\ impl # "readached"
    /\ rq' = Called("get", id, FALSE, extrasArg, optsArg, get(id, extrasArg, optsArg))
    /\ UNCHANGED <<cfgVars, cacheVars>>

\* the query's callback is called; the next call can be made
Return ==
    /\ rq # NoQuery
    /\ rq' = NoQuery
    /\ UNCHANGED <<cfgVars, cacheVars>>

(***************************************************************************)
(* Inputs                                                                  *)
(***************************************************************************)
P(name) == Str(name)
PathN   == <<"n">>
PathS   == <<"s">>
PathO   == <<"o">>
PathOK  == <<"o", ".", "k">>
PathAN  == <<"a", ".", "n">>
PathAM  == <<"a", ".", "m">>
PathZ   == <<"z">>
PathOZ  == <<"o", ".", "z">>
PathANX == <<"a", ".", "n", ".", "x">>
PathAMY == <<"a", ".", "m", ".", "y">>
ModelA  == Str(<<"A">>)

ExtrasArgs ==
    { Undef, P(PathN), P(PathS),
      Arr(<<P(PathS), P(PathN)>>),
      Arr(<<P(PathOK)>>),
      Arr(<<P(PathAN), P(PathAM)>>),
      Arr(<<P(PathZ), P(PathN)>>),
      Arr(<<P(PathOZ)>>),
      Arr(<<P(PathANX), P(PathAMY)>>) }

LimitArgs == {Absent, Num(-1), Num(0), Num(2), Num(200), NaN, Str(<<"x">>)}
CacheArgs == {Absent, Num(0), Num(30)}
LeanArgs  == {Absent, Bool(TRUE), Bool(FALSE)}
SortArgs  == {Absent, Obj(<<[k |-> PathN, v |-> Num(5)]>>), Obj(<<[k |-> PathN, v |-> Num(0)]>>)}
FieldArgs == {Absent, Arr(<<>>)}

\* the options of a call that concern the limit and the sort
ListOpts ==
    {[EmptyOpts EXCEPT !.limit = l, !.sort = so] : l \in LimitArgs, so \in SortArgs}

\* the options of a call that concern the cache and the fields
ReadOpts ==
    {[EmptyOpts EXCEPT !.cache = c, !.lean = b, !.secretFields = sf] :
        c \in CacheArgs, b \in LeanArgs, sf \in FieldArgs}

OptsArgs == {Fn} \cup ListOpts \cup ReadOpts

\* the options the plugin is registered with, before the defaults
RawOpts(common, secret, readOnly, limit, ttl, lean, clear) ==
    [modelName |-> ModelA, commonFields |-> common, secretFields |-> secret,
     readOnlyFields |-> readOnly, limit |-> limit, cache |-> ttl, lean |-> lean,
     sort |-> Undef, clearCache |-> clear]

ReadPolicies ==
    {RawOpts(common, secret, Undef, limit, ttl, lean, Undef) :
        common \in {Undef, Arr(<<P(PathS)>>)},
        secret \in {Undef, Arr(<<P(PathS), P(PathO)>>)},
        limit  \in {Undef, Num(3)},
        ttl    \in {Undef, Num(60)},
        lean   \in {Undef, Bool(FALSE)}}

WritePolicies ==
    {RawOpts(Undef, Undef, readOnly, Undef, Num(60), Undef, clear) :
        readOnly \in {Arr(<<P(<<"p">>)>>)},
        clear \in {Undef, Fn}}

\* plugin(schema, pluginOpts): the options with the version's defaults
plugin(i, raw) == defaults(raw, DEFAULT_PLUGIN_OPTS(i))

(***************************************************************************)
(* Specifications                                                          *)
(***************************************************************************)
InitBackend ==
    /\ store = [i \in Ids |-> IF i = RefId THEN Doc0 ELSE NoDoc]
    /\ ver = [i \in Ids |-> 0]
    /\ cache = {}
    /\ writers = [w \in Writers |-> IdleWriter]
    /\ getters = [g \in Getters |-> IdleGetter]
    /\ committed = [i \in Ids |-> 0]
    /\ nOps = 0

\* the plugin with the write helpers, registered on a model whose queries cache
Init ==
    /\ impl \in {"part0", "index"}
    /\ pluginOpts \in {plugin(impl, raw) : raw \in WritePolicies}
    /\ hasCacheFn = TRUE
    /\ reg = "installed"
    /\ rq = NoQuery
    /\ InitBackend

Next ==
    \/ \E w \in Writers, id \in Ids, p \in Patches : StartPatch(w, id, p)
    \/ \E w \in Writers, id \in Ids : StartCreate(w, id)
    \/ \E w \in Writers, id \in Ids : StartRemove(w, id)
    \/ \E w \in Writers, id \in Ids, upsert \in BOOLEAN :
          StartFindOneAndUpdate(w, id, [n |-> 1], upsert)
    \/ \E w \in Writers, id \in Ids : StartFindOneAndRemove(w, id)
    \/ \E w \in Writers, fails \in BOOLEAN : PatchFound(w, fails)
    \/ \E w \in Writers : BackendApply(w)
    \/ \E w \in Writers : BackendFail(w)
    \/ \E w \in Writers, failAt \in 0..3, caught \in BOOLEAN : PostHook(w, failAt, caught)
    \/ \E w \in Writers : Deliver(w)
    \/ \E g \in Getters, kind \in Kinds, id \in Ids : StartRead(g, kind, id, Fn)
    \/ \E g \in Getters : BackendRead(g)
    \/ \E g \in Getters : StoreAndReturn(g)

Spec == Init /\ [][Next]_vars

\* any version of the plugin, its read helpers called one at a time
InitRead ==
    /\ impl \in Impls
    /\ pluginOpts \in {plugin(impl, raw) : raw \in ReadPolicies}
    /\ hasCacheFn \in BOOLEAN
    /\ reg = "installed"
    /\ rq = NoQuery
    /\ InitBackend

NextRead ==
    \/ \E o \in OptsArgs : CallNumberOf(o)
    \/ \E st \in BOOLEAN, e \in ExtrasArgs, o \in OptsArgs : CallList(st, e, o)
    \/ \E id \in {Str(<<"a">>), Undef}, e \in ExtrasArgs, o \in OptsArgs : CallGet(id, e, o)
    \/ Return

SpecRead == InitRead /\ [][NextRead]_vars

(***************************************************************************)
(* Registration with options of any type                                   *)
(***************************************************************************)
\* a rule ['key', 'is', type] of the validator: a key the options do not hold
\* is optional (the [pluginOpts.key] of the plugin's documentation)
IsRule(x, type) == x = Undef \/ x.t = type

\* a rule ['key', 'required', true]
RequiredRule(x) == x.t \notin {"undefined", "null"} /\ x # Str(<<>>)

\* whether validatePluginOpts(pluginOpts) throws: part_000 runs the rules and
\* throws the TypeError of the first that fails; readached hands the errors
\* to an empty callback; the plugin of index.js has the call commented out
validatePluginOpts(i, o) ==
    /\ i = "part0"
    /\ ~ (/\ IsRule(o.commonFields, "array")
          /\ IsRule(o.secretFields, "array")
          /\ IsRule(o.cache, "number")
          /\ IsRule(o.limit, "number")
          /\ IsRule(o.lean, "boolean")
          /\ RequiredRule(o.modelName)
          /\ IsRule(o.modelName, "string"))

\* plugin(schema, pluginOpts): the defaults, the validation, and then the
\* statics, methods and hooks unless the validation threw
Register ==
    /\ reg = "none"
    /\ pluginOpts' = plugin(impl, pluginOpts)
    /\ reg' = IF validatePluginOpts(impl, pluginOpts') THEN "threw" ELSE "installed"
    /\ UNCHANGED <<impl, hasCacheFn, readVars, cacheVars>>

TextX == Str(<<"x">>)

\* the options a host may register with, well typed or not
RegPolicies ==
    {[RawOpts(common, secret, Undef, limit, ttl, Undef, Undef)
        EXCEPT !.modelName = name] :
        name   \in {ModelA, Undef, Bool(TRUE)},
        common \in {Undef, Arr(<<P(PathS)>>), P(PathS)},
        secret \in {Undef, P(PathS)},
        limit  \in {Undef, Num(3), TextX},
        ttl    \in {Undef, Num(60), TextX}}

\* the plugin is about to be registered on a schema
InitReg ==
    /\ impl \in Impls
    /\ pluginOpts \in RegPolicies
    /\ hasCacheFn = TRUE
    /\ reg = "none"
    /\ rq = NoQuery
    /\ InitBackend

NextReg ==
    \/ Register
    \/ CallNumberOf(Fn)
    \/ \E e \in {Undef, P(PathN)} : CallList(FALSE, e, Fn)
    \/ CallGet(Str(<<"a">>), Undef, Fn)
    \/ Return

SpecReg == InitReg /\ [][NextReg]_vars

(***************************************************************************)
(* Claims                                                                  *)
(***************************************************************************)
SecretNames == {pluginOpts.secretFields.v[i].v : i \in 1..Len(pluginOpts.secretFields.v)}

\* C1: the field list a list or get call passes to select holds no field of
\* the policy's secretFields, whatever the extras, the commonFields and the
\* options of the call.
C1_NoSecretSelected ==
    (rq.fn \in {"list", "get"} /\ ~rq.q.raised)
        => SelectedFields(rq.q.select) \cap SecretNames = {}

\* the policy limit, 100 when the policy sets none
ClaimedPolicyLimit ==
    IF pluginOpts.limit.t = "number" THEN pluginOpts.limit.v ELSE 100

Smaller(a, b) == IF a <= b THEN a ELSE b

\* C7: the limit a list call applies is min(requested, policy limit) for a
\* positive requested limit, the policy limit when none is requested, and
\* never more than the policy limit (100 when the policy sets none).
C7_LimitClamped ==
    (rq.fn = "list" /\ ~rq.q.raised) =>
        /\ (rq.opts.limit.t = "number" /\ rq.opts.limit.v > 0)
              => rq.q.limit = Smaller(rq.opts.limit.v, ClaimedPolicyLimit)
        /\ rq.opts.limit = Absent => rq.q.limit = ClaimedPolicyLimit
        /\ rq.q.limit <= ClaimedPolicyLimit

\* C8: a list call whose requested limit is 0, negative or not a number
\* applies the policy's limit, so the applied limit is never negative.
C8_InvalidLimitIsDefault ==
    (/\ rq.fn = "list" /\ ~rq.q.raised
     /\ \/ rq.opts.limit.t = "number" /\ rq.opts.limit.v <= 0
        \/ rq.opts.limit.t \in {"NaN", "string"})
        => rq.q.limit = ClaimedPolicyLimit /\ rq.q.limit >= 0

\* C10: no list, get or numberOf call attaches a cache descriptor with a
\* non-zero ttl to its query when the read is not lean.
C10_NoCacheUnlessLean ==
    (rq.fn # "none" /\ ~rq.q.raised /\ rq.q.cache # NoCache /\ Truthy(rq.q.cache.ttl))
        => rq.q.lean

\* C2: once the invalidation of a successful write has run, with a clearCache
\* function configured, the cache holds no result that differs from a fresh
\* read of the backend, save one a concurrent read stored out of date.
C2_StaleAllCleared ==
    \A w \in Writers :
        (/\ pluginOpts.clearCache = Fn
         /\ writers[w].pc = "deliver" /\ writers[w].inv = 1 /\ ~writers[w].raised)
            => \A e \in cache : Stale(e) => e.late

ExpectedCount == <<"A", ":", "c", "o", "u", "n", "t", ":", "*">>
ExpectedList  == <<"A", ":", "l", "i", "s", "t", ":", "*">>
ExpectedGet(id) == <<"A", ":", "g", "e", "t", ":">> \o id \o <<":", "*">>
StoredGetKey(id) == <<"A", ":", "g", "e", "t", ":">> \o id \o <<":", "#">>

\* C4: an invocation of a document's clearCache calls the configured function
\* with exactly 'A:count:*', 'A:list:*' and 'A:get:<id>:*' of its own id, none
\* of them matching the get key of another id; with no function configured it
\* makes no call.
C4_ClearCachePatterns ==
    \A w \in Writers :
        LET me == writers[w]
        IN  me.inv >= 1 =>
              IF pluginOpts.clearCache # Fn THEN me.calls = <<>>
              ELSE /\ me.calls = <<ExpectedCount, ExpectedList, ExpectedGet(me.id)>>
                   /\ \A i \in 1..Len(me.calls), other \in Ids \ {me.id} :
                         ~Glob(me.calls[i], StoredGetKey(other))

\* C5: the invalidation of a mutating operation is invoked at most once, only
\* after the backend applied the mutation, exactly once when the mutation was
\* applied and not at all when it failed.
C5_InvalidationOnce ==
    \A w \in Writers :
        LET me == writers[w]
        IN  /\ me.inv <= 1
            /\ me.inv = 1 => me.applied
            /\ (me.applied /\ me.pc \in {"deliver", "done", "uncaught"}) => me.inv = 1
            /\ ~me.applied => me.inv = 0

\* C6: the invalidation never raises and never changes what the mutating
\* operation reports: once invoked, the operation still calls back with its
\* own result and no error.
C6_InvalidationSwallowed ==
    \A w \in Writers :
        writers[w].inv = 1 =>
            /\ ~writers[w].raised
            /\ writers[w].pc # "uncaught"
            /\ writers[w].err = Null

ReadOnlyNames ==
    {f \in DocFields : \E i \in 1..Len(pluginOpts.readOnlyFields.v) :
                          pluginOpts.readOnlyFields.v[i] = Str(<<f>>)}

\* C9: the save of a patch leaves the persisted value of every readOnlyFields
\* field as it was and sets every other field of the patch object to the
\* patched value; a save that fails passes the backend's error to the
\* callback and persists nothing; a patch whose save succeeded calls back
\* with no error and the updated document.
C9_PatchFrame ==
    [][\A w \in Writers :
        LET me  == writers[w]
            now == writers'[w]
        IN  /\ (me.op = "patch" /\ me.pc = "save" /\ now.pc = "post") =>
                  \A f \in DocFields :
                     store'[me.id][f] =
                        IF f \in DOMAIN me.patch /\ f \notin ReadOnlyNames
                        THEN me.patch[f] ELSE store[me.id][f]
            /\ (me.op = "patch" /\ me.pc = "save" /\ now.pc = "done") =>
                  /\ now.res = [err |-> BackendError, doc |-> Undef]
                  /\ store' = store
            /\ (/\ me.op = "patch" /\ me.applied /\ me.pc \in {"post", "deliver"}
                /\ now.op = "patch" /\ now.pc \in {"done", "uncaught"}) =>
                  now.res = [err |-> Null, doc |-> store'[me.id]]
      ]_vars

\* the ttl a call asks for: the cache option of the call when it holds one,
\* the policy's otherwise
RequestedTtl == IF rq.opts.cache # Absent THEN rq.opts.cache ELSE pluginOpts.cache

IsCached(q) == q.cache # NoCache /\ Truthy(q.cache.ttl)

\* C11: the ttl a list, get or numberOf call caches with is the cache option
\* of the call when it holds one (a 0 of the caller disables caching), the
\* policy's ttl otherwise, and with neither the query is not cached.
C11_TtlResolution ==
    (rq.fn # "none" /\ ~rq.q.raised) =>
        /\ IsCached(rq.q) => rq.q.cache.ttl = RequestedTtl
        /\ ~Truthy(RequestedTtl) => ~IsCached(rq.q)
        /\ (Truthy(RequestedTtl) /\ rq.q.lean /\ hasCacheFn) => IsCached(rq.q)

\* the prefix a get is to cache under: with the id when one is given, the
\* operation's prefix alone otherwise
ClaimedGetPrefix(id) ==
    IF id.t = "string"
    THEN pluginOpts.modelName.v \o <<":", "g", "e", "t", ":">> \o id.v \o <<":">>
    ELSE pluginOpts.modelName.v \o <<":", "g", "e", "t", ":">>

\* C12: a cached get of an id caches under '<modelName>:get:<id>:', a cached
\* get without an id under '<modelName>:get:'.
C12_GetPrefix ==
    (rq.fn = "get" /\ ~rq.q.raised /\ IsCached(rq.q))
        => rq.q.cache.prefix = ClaimedGetPrefix(rq.id)

\* a registered policy the claim calls invalid: modelName missing or not a
\* string, commonFields or secretFields not an array, cache or limit not a number
InvalidPolicy ==
    \/ pluginOpts.modelName.t # "string"
    \/ pluginOpts.commonFields.t # "array"
    \/ pluginOpts.secretFields.t # "array"
    \/ pluginOpts.cache.t \notin {"undefined", "number"}
    \/ pluginOpts.limit.t \notin {"undefined", "number"}

\* C13: registering with an invalid policy throws and installs nothing, so
\* no list, get or numberOf runs under it.
C13_InvalidPolicyRejected ==
    (reg # "none" /\ InvalidPolicy) => (reg = "threw" /\ rq = NoQuery)

\* whether a sort object holds the key with the value
SortHas(sort, k, v) ==
    sort.t = "object" /\ \E i \in 1..Len(sort.v) : sort.v[i] = [k |-> k, v |-> v]

\* C14: the sort of a list whose query searches a text includes the score
\* key when the caller gave no sort, and is the caller's sort as given when
\* the caller gave one.
C14_TextSearchSort ==
    (rq.fn = "list" /\ rq.searchText /\ ~rq.q.raised) =>
        IF rq.opts.sort = Absent
        THEN SortHas(rq.q.sort, ScoreKey, TextScore)
        ELSE rq.q.sort = rq.opts.sort

\* the direction the claim gives a requested sort value
ClaimedDirection(v) == IF v.t = "number" /\ v.v > 0 THEN Num(1) ELSE Num(-1)

\* C15: every key of a sort the caller gave reaches the query with the
\* direction 1 when the requested value is positive and -1 otherwise.
C15_SortDirections ==
    (rq.fn = "list" /\ ~rq.q.raised /\ rq.opts.sort.t = "object") =>
        \A i \in 1..Len(rq.opts.sort.v) :
            SortHas(rq.q.sort, rq.opts.sort.v[i].k, ClaimedDirection(rq.opts.sort.v[i].v))

\* a field path of which a prefix is not in the schema, met before any
\* reference the path goes through
UnknownPath(x) ==
    /\ x.t = "string"
    /\ LET w == WalkPrefixes(x)
       IN  \E k \in 1..Len(w) :
              /\ SchemaPathType(w[k]) = "adhocOrUndefined"
              /\ \A j \in 1..(k - 1) : ~SchemaHasRef(w[j])

\* the extras of a call without the unknown field paths
KnownExtras(extrasArg) ==
    Arr(SelectSeq(castArray(extrasArg), LAMBDA e : ~UnknownPath(e)))

\* the query the call builds for the given extras
QueryWith(extrasArg) ==
    IF rq.fn = "get" THEN get(rq.id, extrasArg, rq.opts)
    ELSE IF impl = "readached" THEN readachedList(extrasArg, rq.opts)
    ELSE list(rq.searchText, extrasArg, rq.opts)

\* C16: a list or get whose extras hold an unknown field path does not raise,
\* and selects what it selects without that path: the path and its prefixes
\* add nothing, the other fields are selected as they would be.
C16_UnknownPathDropped ==
    (/\ rq.fn \in {"list", "get"}
     /\ \E i \in 1..Len(castArray(rq.extras)) : UnknownPath(castArray(rq.extras)[i]))
        => /\ ~rq.q.raised
           /\ rq.q.select = QueryWith(KnownExtras(rq.extras)).select

\* the paths of the populate instructions of a query, nested ones included
PopulatePaths(q) ==
    CASE impl = "part0"     -> {q.populate[i].path : i \in 1..Len(q.populate)}
      [] impl = "readached" -> {q.populate[i] : i \in 1..Len(q.populate)}
      [] OTHER -> UNION {{q.populate[i][j].path : j \in 1..Len(q.populate[i])} :
                            i \in 1..Len(q.populate)}

\* whether the query holds a populate instruction nested in another
NestedPopulate(q) ==
    impl = "index" /\ \E i \in 1..Len(q.populate) : Len(q.populate[i]) > 1

\* whether a proper prefix of the field path is a reference
BeyondReference(f) ==
    LET w == WalkPrefixes(Str(f))
    IN  \E k \in 1..(Len(w) - 1) : SchemaHasRef(w[k])

\* C17: list and get create a populate instruction only for a field the
\* schema holds as a reference, none beyond a first reference, and select no
\* field path beyond a reference.
C17_PopulateOnlyReferences ==
    (rq.fn \in {"list", "get"} /\ ~rq.q.raised) =>
        /\ PopulatePaths(rq.q) \subseteq RefPaths
        /\ ~NestedPopulate(rq.q)
        /\ \A f \in SelectedFields(rq.q.select) : ~BeyondReference(f)

\* the ids of the documents whose invalidation is to reach a cached result:
\* the id of a get, every id for a count or a list
ReachingIds(e) == IF e.kind = "get" THEN {e.id} ELSE Ids

\* whether a pattern that clearCache of each such document issues, on the
\* model the result was cached for, matches the key of the cached result
Reachable(e) ==
    LET opts == IF e.kind = "listB" THEN OptsB ELSE pluginOpts
    IN  \A id \in ReachingIds(e) :
            \E i \in 1..Len(ClearPatterns(opts, id)) :
                Glob(ClearPatterns(opts, id)[i], e.key)

\* C18, as claimed: every result numberOf, list or get(id) cached is under a
\* key that a pattern clearCache of the document issues matches.
C18_KeyCoverage ==
    \A e \in cache : pluginOpts.clearCache = Fn /\ Reachable(e)

\* C18, amended: it is so when a clearCache function is configured, the only
\* case in which clearCache issues a pattern.
C18_KeyCoverageConfigured ==
    pluginOpts.clearCache = Fn => \A e \in cache : Reachable(e)

\* a get, a list and a count are cached with a clearCache function configured
C18_Witness ==
    /\ pluginOpts.clearCache = Fn
    /\ \A k \in {"get", "list", "count"} : \E e \in cache : e.kind = k

\* whether a chain of populate nodes holds the path s0.s1...sn: its i-th node
\* has the path s(i-1) and selects s(i)
ChainHolds(chain, nodes) ==
    /\ Len(chain) >= Len(nodes) - 1
    /\ \A i \in 1..(Len(nodes) - 1) :
          /\ chain[i].path = nodes[i]
          /\ nodes[i + 1] \in Range(chain[i].select)

\* C19: the populate tree list and get of index.js build holds, for every
\* dotted extra s0.s1...sn, a chain of nodes s0, ..., s(n-1) in which the node
\* of s(i) selects s(i+1), whatever the other extras are.
C19_PopulateTree ==
    (impl = "index" /\ rq.fn \in {"list", "get"} /\ ~rq.q.raised) =>
        \A k \in 1..Len(castArray(rq.extras)) :
            LET extra == castArray(rq.extras)[k]
            IN  (extra.t = "string" /\ IncludesDot(extra.v)) =>
                   \E j \in 1..Len(rq.q.populate) :
                       ChainHolds(rq.q.populate[j], Split(extra.v, "."))

\* C20: the static patch of an id with no stored document, or whose lookup
\* fails, calls done once and throws nothing, saves nothing and invalidates
\* nothing; the error of a failed lookup is the error done gets.
C20_PatchOfMissing ==
    \A w \in Writers :
        LET me == writers[w]
        IN  (me.op = "patch" /\ me.pc # "find" /\ me.loaded = Null) =>
               /\ me.pc = "done"
               /\ me.res # NoRes
               /\ me.res.err = me.err
               /\ me.err \in {Null, BackendError}
               /\ ~me.applied
               /\ me.inv = 0

====
